---- MODULE Spec2Model ----
(***************************************************************************)
(* Model of the image upload endpoint, app/api/imagekit/upload/route.js.   *)
(*                                                                         *)
(* POST(request) is an async function: it runs synchronously between its   *)
(* three awaits (auth(), request.formData(), file.arrayBuffer()) and the   *)
(* awaited imagekit.upload().  Each action below is one such synchronous   *)
(* segment of one request; several requests may be in flight, interleaved  *)
(* at the awaits.  Every awaited call either returns or raises; a raise    *)
(* anywhere inside the try block lands in the catch block.                 *)
(*                                                                         *)
(* Strings that the handler builds or takes apart (user ids, file names,   *)
(* storage keys) are sequences of one-character strings.                   *)
(***************************************************************************)
EXTENDS Integers, Sequences, FiniteSets, TLC

VARIABLES
    req,       \* req[r]: the locals and the position of the handler serving r
    responses, \* responses[r]: the NextResponse objects returned for r
    uploads,   \* uploads[r]: the argument objects of imagekit.upload calls
    log,       \* log[r]: collaborator calls made and gates evaluated, in order
    now,       \* the millisecond clock read by Date.now()
    sanIn,     \* sanitizer harness: the suggested name
    sanOut     \* sanitizer harness: results of successive sanitizations

vars == <<req, responses, uploads, log, now, sanIn, sanOut>>

----
\* Bounds of the model

\* last millisecond the clock reaches
MaxClock == 2

\* longest suggested name given to the sanitizer harness
MaxLen == 2

Requests == {"r1", "r2"}

----
\* Values

\* JavaScript null / undefined in a string-valued position
Null == <<"null">>

\* a test for null alone, which lets the empty string through
FalsyNullOnly(s) == s = Null

\* !s for a string-or-null s
Falsy(s) == s = Null \/ s = <<>>

UserIds == {<<"u", "1">>, <<"u", "2">>}

\* what `const { userId } = await auth()` can bind
AuthResults == UserIds \cup {Null, <<>>}

\* messages of the errors the collaborators raise
ErrMsgs == {"E1", "E2"}

\* samples of the character ranges a-z, A-Z and the digits 0-9
Lower == {"a", "d", "l", "o", "p", "u"}
Upper == {"Z"}
Digit == {"0", "1", "2", "3", "4", "5", "6", "7", "8", "9"}

\* a character class that also spares the space
RegexKeptWithSpace == Lower \cup Upper \cup Digit \cup {".", "-", " "}

\* the characters the regular expression /[^a-zA-Z0-9.-]/g does not match
RegexKept == Lower \cup Upper \cup Digit \cup {".", "-"}

\* characters of the suggested names tried
NameAlphabet == {"a", "Z", "9", ".", "-", "_", " ", "/"}

RECURSIVE SeqsUpTo(_, _)
SeqsUpTo(S, n) ==
    IF n = 0 THEN {<<>>}
    ELSE LET shorter == SeqsUpTo(S, n - 1)
         IN  shorter \cup {Append(s, c) : s \in {t \in shorter : Len(t) = n - 1}, c \in S}

\* formData.get("fileName"): a string, or null when the field is absent
SuggestedNames == SeqsUpTo(NameAlphabet, MaxLen) \cup {Null}

\* the suggested names sent with requests
FormNames == {Null, <<" ">>, <<"_">>}

\* a limit of 5 decimal megabytes
MAX_SIZE_Decimal == 5 * 1000 * 1000

MAX_SIZE == 5 * 1024 * 1024

\* an allow-list that also admits PDF
validTypesWithPdf == {"image/png", "image/jpeg", "image/webp", "application/pdf"}

validTypes == {"image/png", "image/jpeg", "image/webp"}

\* formData.get("file") when the field is absent
NoFile == [present |-> FALSE, type |-> "", size |-> 0]

File(type, size) == [present |-> TRUE, type |-> type, size |-> size]

\* the files sent with requests: every allowed type and one that is not,
\* an empty payload, one of exactly the limit and two beyond it
Files ==
    {File("image/png", 0), File("image/jpeg", MAX_SIZE),
     File("image/webp", MAX_SIZE + 1), File("application/pdf", MAX_SIZE + 1)}

\* the multipart form a client sends
Bodies == [file : Files \cup {NoFile}, fileName : FormNames]

NoBody == [file |-> NoFile, fileName |-> Null]

----
\* Responses

Unauthorized == [status |-> 401, body |-> [error |-> "Unauthorized"]]

NoFileProvided == [status |-> 400, body |-> [error |-> "No file provided"]]

UnsupportedType == [status |-> 400, body |-> [error |-> "Unsupported file type"]]

TooLarge == [status |-> 400, body |-> [error |-> "File too large (max 5MB allowed)"]]

\* the catch block's response
UploadFailed(message) ==
    [status |-> 500,
     body |-> [success |-> FALSE, error |-> "Failed to upload image", details |-> message]]

\* the store's answer to an upload, and the thumbnail URL derived from it
StoreUrl(key) == <<"h", ":">> \o key

Thumbnail(url) == url \o <<"?", "t", "r">>

Success(key, size) ==
    [status |-> 200,
     body |-> [success |-> TRUE, url |-> StoreUrl(key),
               thumbnailUrl |-> Thumbnail(StoreUrl(key)), size |-> size, name |-> key]]

----
\* Pure steps of the handler

RECURSIVE DecimalString(_)
\* the digits of a non-negative integer, as template literals print it
DecimalString(n) ==
    IF n < 10 THEN <<CHOOSE d \in Digit : d = ToString(n)>>
    ELSE Append(DecimalString(n \div 10), CHOOSE d \in Digit : d = ToString(n % 10))

\* fileName.replace(/[^a-zA-Z0-9.-]/g, "_")
Replace(fileName) ==
    [i \in 1..Len(fileName) |-> IF fileName[i] \in RegexKept THEN fileName[i] ELSE "_"]

Placeholder == <<"u", "p", "l", "o", "a", "d">>

\* fileName?.replace(/[^a-zA-Z0-9.-]/g, "_") || "upload"
Sanitize(fileName) ==
    LET replaced == IF fileName = Null THEN Null ELSE Replace(fileName)
    IN  IF Falsy(replaced) THEN Placeholder ELSE replaced

\* a key without the clock reading
UniqueFileNameNoClock(userId, timestamp, sanitizedFileName) ==
    userId \o <<"/">> \o sanitizedFileName

\* `${userId}/${timestamp}_${sanitizedFileName}`
UniqueFileName(userId, timestamp, sanitizedFileName) ==
    userId \o <<"/">> \o DecimalString(timestamp) \o <<"_">> \o sanitizedFileName

----
\* State

InitLocals ==
    [pc |-> "idle", body |-> NoBody, userId |-> Null, file |-> NoFile, fileName |-> Null,
     buffer |-> -1, timestamp |-> 0, sanitizedFileName |-> Null, uniqueFileName |-> Null,
     threw |-> "none", message |-> ""]

Init ==
    /\ req = [r \in Requests |-> InitLocals]
    /\ responses = [r \in Requests |-> <<>>]
    /\ uploads = [r \in Requests |-> <<>>]
    /\ log = [r \in Requests |-> <<>>]
    /\ now = 1
    /\ sanIn = Null
    /\ sanOut = <<>>

\* `return NextResponse.json(...)`: the handler ends with this response
Respond(r, response, events) ==
    /\ responses' = [responses EXCEPT ![r] = Append(@, response)]
    /\ log' = [log EXCEPT ![r] = @ \o events]

\* a handler without the catch block: the error leaves it unanswered
CatchNothing(r, at, message, events) ==
    /\ req' = [req EXCEPT ![r].pc = "done", ![r].threw = at, ![r].message = message]
    /\ log' = [log EXCEPT ![r] = @ \o events]
    /\ UNCHANGED responses

\* the catch block: any error raised inside the try ends the request with 500
Catch(r, at, message, events) ==
    /\ req' = [req EXCEPT ![r].pc = "done", ![r].threw = at, ![r].message = message]
    /\ Respond(r, UploadFailed(message), events)

----
\* Actions

\* the clock advances by a millisecond
Tick ==
    /\ now < MaxClock
    /\ now' = now + 1
    /\ UNCHANGED <<req, responses, uploads, log, sanIn, sanOut>>

\* a request arrives; POST runs up to `await auth()`
Arrive(r, body) ==
    /\ req[r].pc = "idle"
    /\ req' = [req EXCEPT ![r].pc = "auth", ![r].body = body]
    /\ log' = [log EXCEPT ![r] = Append(@, "auth()")]
    /\ UNCHANGED <<responses, uploads, now, sanIn, sanOut>>

\* auth() resolves; the identity gate, then `await request.formData()`
AuthReturn(r, userId) ==
    /\ req[r].pc = "auth"
    /\ IF Falsy(userId)
       THEN /\ req' = [req EXCEPT ![r].pc = "done", ![r].userId = userId]
            /\ Respond(r, Unauthorized, <<"identity">>)
       ELSE /\ req' = [req EXCEPT ![r].pc = "formData", ![r].userId = userId]
            /\ log' = [log EXCEPT ![r] = @ \o <<"identity", "formData()">>]
            /\ UNCHANGED responses
    /\ UNCHANGED <<uploads, now, sanIn, sanOut>>

\* auth() rejects
AuthRaise(r, message) ==
    /\ req[r].pc = "auth"
    /\ Catch(r, "auth", message, <<>>)
    /\ UNCHANGED <<uploads, now, sanIn, sanOut>>

\* the type gate placed before the presence gate
FormDataReturnTypeFirst(r) ==
    LET file == req[r].body.file
        fileName == req[r].body.fileName
    IN  /\ req[r].pc = "formData"
        /\ IF file.type \notin validTypes
           THEN /\ req' = [req EXCEPT ![r].pc = "done", ![r].file = file,
                                      ![r].fileName = fileName]
                /\ Respond(r, UnsupportedType, <<"type">>)
           ELSE /\ req' = [req EXCEPT ![r].pc = "arrayBuffer", ![r].file = file,
                                      ![r].fileName = fileName]
                /\ log' = [log EXCEPT ![r] = @ \o <<"type", "presence", "arrayBuffer()">>]
                /\ UNCHANGED responses
        /\ UNCHANGED <<uploads, now, sanIn, sanOut>>

\* request.formData() resolves; the presence and type gates, then
\* `await file.arrayBuffer()`
FormDataReturn(r) ==
    LET file == req[r].body.file
        fileName == req[r].body.fileName
    IN  /\ req[r].pc = "formData"
        /\ IF ~file.present
           THEN /\ req' = [req EXCEPT ![r].pc = "done", ![r].file = file,
                                      ![r].fileName = fileName]
                /\ Respond(r, NoFileProvided, <<"presence">>)
           ELSE IF file.type \notin validTypes
           THEN /\ req' = [req EXCEPT ![r].pc = "done", ![r].file = file,
                                      ![r].fileName = fileName]
                /\ Respond(r, UnsupportedType, <<"presence", "type">>)
           ELSE /\ req' = [req EXCEPT ![r].pc = "arrayBuffer", ![r].file = file,
                                      ![r].fileName = fileName]
                /\ log' = [log EXCEPT ![r] = @ \o <<"presence", "type", "arrayBuffer()">>]
                /\ UNCHANGED responses
        /\ UNCHANGED <<uploads, now, sanIn, sanOut>>

\* request.formData() rejects
FormDataRaise(r, message) ==
    /\ req[r].pc = "formData"
    /\ Catch(r, "formData", message, <<>>)
    /\ UNCHANGED <<uploads, now, sanIn, sanOut>>

\* file.arrayBuffer() resolves; the size gate, the key derivation, then
\* `await imagekit.upload(...)`
ArrayBufferReturn(r) ==
    LET buffer == req[r].file.size
        timestamp == now
        sanitizedFileName == Sanitize(req[r].fileName)
        uniqueFileName == UniqueFileName(req[r].userId, timestamp, sanitizedFileName)
    IN  /\ req[r].pc = "arrayBuffer"
        /\ IF buffer > MAX_SIZE
           THEN /\ req' = [req EXCEPT ![r].pc = "done", ![r].buffer = buffer]
                /\ Respond(r, TooLarge, <<"size">>)
                /\ UNCHANGED uploads
           ELSE /\ req' = [req EXCEPT ![r].pc = "upload", ![r].buffer = buffer,
                                      ![r].timestamp = timestamp,
                                      ![r].sanitizedFileName = sanitizedFileName,
                                      ![r].uniqueFileName = uniqueFileName]
                /\ uploads' = [uploads EXCEPT ![r] =
                       Append(@, [file |-> buffer, fileName |-> uniqueFileName,
                                  folder |-> "/projects"])]
                /\ log' = [log EXCEPT ![r] = @ \o <<"size", "upload()">>]
                /\ UNCHANGED responses
        /\ UNCHANGED <<now, sanIn, sanOut>>

\* file.arrayBuffer() rejects
ArrayBufferRaise(r, message) ==
    /\ req[r].pc = "arrayBuffer"
    /\ Catch(r, "arrayBuffer", message, <<>>)
    /\ UNCHANGED <<uploads, now, sanIn, sanOut>>

\* imagekit.upload() resolves and imagekit.url() returns; the 200 response
UploadReturn(r) ==
    /\ req[r].pc = "upload"
    /\ req' = [req EXCEPT ![r].pc = "done"]
    /\ Respond(r, Success(req[r].uniqueFileName, req[r].buffer), <<"url()">>)
    /\ UNCHANGED <<uploads, now, sanIn, sanOut>>

\* imagekit.upload() resolves and imagekit.url() throws
ThumbnailRaise(r, message) ==
    /\ req[r].pc = "upload"
    /\ Catch(r, "url", message, <<"url()">>)
    /\ UNCHANGED <<uploads, now, sanIn, sanOut>>

\* a rejected upload tried once more before giving up
UploadRaiseRetry(r, message) ==
    /\ req[r].pc = "upload"
    /\ IF Len(uploads[r]) < 2
       THEN /\ uploads' = [uploads EXCEPT ![r] = Append(@, @[1])]
            /\ log' = [log EXCEPT ![r] = Append(@, "upload()")]
            /\ UNCHANGED <<req, responses>>
       ELSE /\ Catch(r, "upload", message, <<>>)
            /\ UNCHANGED uploads
    /\ UNCHANGED <<now, sanIn, sanOut>>

\* imagekit.upload() rejects
UploadRaise(r, message) ==
    /\ req[r].pc = "upload"
    /\ Catch(r, "upload", message, <<>>)
    /\ UNCHANGED <<uploads, now, sanIn, sanOut>>

\* the segments of the handler serving r that end an await
Step(r) ==
    \/ \E userId \in AuthResults : AuthReturn(r, userId)
    \/ \E message \in ErrMsgs : AuthRaise(r, message)
    \/ FormDataReturn(r)
    \/ \E message \in ErrMsgs : FormDataRaise(r, message)
    \/ ArrayBufferReturn(r)
    \/ \E message \in ErrMsgs : ArrayBufferRaise(r, message)
    \/ UploadReturn(r)
    \/ \E message \in ErrMsgs : ThumbnailRaise(r, message)
    \/ \E message \in ErrMsgs : UploadRaise(r, message)

Next ==
    \/ Tick
    \/ \E r \in Requests, body \in Bodies : Arrive(r, body)
    \/ \E r \in Requests : Step(r)

Spec == Init /\ [][Next]_vars

\* every awaited call of a request in flight eventually returns or raises
FairSpec == Spec /\ \A r \in Requests : WF_vars(Step(r))

----
\* The sanitizer on its own: a suggested name, sanitized once and once more

SanInit ==
    /\ req = [r \in Requests |-> InitLocals]
    /\ responses = [r \in Requests |-> <<>>]
    /\ uploads = [r \in Requests |-> <<>>]
    /\ log = [r \in Requests |-> <<>>]
    /\ now = 1
    /\ sanIn \in SuggestedNames
    /\ sanOut = <<>>

SanitizeName ==
    /\ sanOut = <<>>
    /\ sanOut' = <<Sanitize(sanIn)>>
    /\ UNCHANGED <<req, responses, uploads, log, now, sanIn>>

SanitizeAgain ==
    /\ Len(sanOut) = 1
    /\ sanOut' = Append(sanOut, Sanitize(sanOut[1]))
    /\ UNCHANGED <<req, responses, uploads, log, now, sanIn>>

SanNext == SanitizeName \/ SanitizeAgain

SanSpec == SanInit /\ [][SanNext]_vars

----
\* Vocabulary of the properties, spelled out independently of the handler

Done(r) == req[r].pc = "done"

\* the caller identities that count as none
NoIdentity == {Null, <<>>}

\* the allow-list of declared content types
AllowList == {"image/png", "image/jpeg", "image/webp"}

\* 5 MiB
FiveMiB == 5 * 1024 * 1024

\* the safe set of a storage key's name portion, [a-zA-Z0-9._-]
SafeSet == Lower \cup Upper \cup Digit \cup {".", "_", "-"}

\* the 500 response carrying the message of the error the request met
Failure500(r) ==
    [status |-> 500,
     body |-> [success |-> FALSE, error |-> "Failed to upload image",
               details |-> req[r].message]]

\* auth() returned for r, and returned no identity
AuthYieldedNone(r) ==
    /\ req[r].pc \notin {"idle", "auth"}
    /\ req[r].threw # "auth"
    /\ req[r].userId \in NoIdentity

\* r got past the identity gate and request.formData() returned
FormRead(r) ==
    /\ req[r].pc \in {"arrayBuffer", "upload", "done"}
    /\ req[r].userId \notin NoIdentity
    /\ req[r].threw \notin {"auth", "formData"}

\* file.arrayBuffer() returned for r
PayloadRead(r) == req[r].buffer >= 0

IsGate(e) == e \in {"identity", "presence", "type", "size", "upload()"}

GateOrder == <<"identity", "presence", "type", "size", "upload()">>

\* the gates evaluated for r, in the order of their evaluation
GatesEvaluated(r) == SelectSeq(log[r], IsGate)

----
\* C1: when auth() returns no caller identity (absent or empty), the
\* response is 401 { error: "Unauthorized" }, and nothing else was done for
\* the request: the form data was not read, no presence, type or size check
\* ran, and imagekit.upload was not called.
C1_UnauthorizedFirst ==
    \A r \in Requests :
        AuthYieldedNone(r) =>
            /\ responses[r] = <<[status |-> 401, body |-> [error |-> "Unauthorized"]]>>
            /\ log[r] = <<"auth()", "identity">>
            /\ uploads[r] = <<>>
            /\ Done(r)

\* one request answered after auth() returned null and one after it returned
\* "", each carrying a file
C1_Witness ==
    \E r1, r2 \in Requests :
        /\ AuthYieldedNone(r1) /\ req[r1].userId = Null /\ req[r1].body.file.present
        /\ AuthYieldedNone(r2) /\ req[r2].userId = <<>> /\ req[r2].body.file.present
        /\ Len(responses[r1]) = 1 /\ Len(responses[r2]) = 1

\* C2: when auth() raises, the response is 401 { error: "Unauthorized" }, as
\* when it yields no identity.
C2_AuthRaiseIsUnauthorized ==
    \A r \in Requests :
        (Done(r) /\ req[r].threw = "auth") =>
            responses[r] = <<[status |-> 401, body |-> [error |-> "Unauthorized"]]>>

\* C3: an authenticated request whose file has a declared content type
\* outside the allow-list is answered 400 { error: "Unsupported file type" }
\* and imagekit.upload is never called for it.
C3_UnsupportedType ==
    \A r \in Requests :
        (FormRead(r) /\ req[r].file.present /\ req[r].file.type \notin AllowList) =>
            /\ responses[r] =
                   <<[status |-> 400, body |-> [error |-> "Unsupported file type"]]>>
            /\ uploads[r] = <<>>
            /\ "upload()" \notin {log[r][i] : i \in 1..Len(log[r])}

C3_Witness ==
    \E r \in Requests :
        /\ FormRead(r) /\ req[r].file.present
        /\ req[r].file.type = "application/pdf"
        /\ Len(responses[r]) = 1

\* C4: for an authenticated request with a file of an allowed type whose
\* payload has been read, the response is 400 { error: "File too large (max
\* 5MB allowed)" } exactly when the payload is longer than 5 * 1024 * 1024
\* bytes (exactly 5 MiB passes), and a request so answered never reaches
\* imagekit.upload.
C4_TooLarge ==
    \A r \in Requests :
        /\ (FormRead(r) /\ req[r].file.present /\ req[r].file.type \in AllowList
              /\ PayloadRead(r)) =>
               (responses[r] =
                    <<[status |-> 400,
                       body |-> [error |-> "File too large (max 5MB allowed)"]]>>
                <=> req[r].buffer > FiveMiB)
        /\ (\E i \in 1..Len(responses[r]) :
                responses[r][i].body =
                    [error |-> "File too large (max 5MB allowed)"]) =>
               /\ uploads[r] = <<>>
               /\ req[r].buffer > FiveMiB

\* one payload of exactly 5 MiB forwarded to the store and answered 200, one of
\* 5 MiB + 1 refused
C4_Witness ==
    \E r1, r2 \in Requests :
        /\ req[r1].buffer = FiveMiB /\ Len(uploads[r1]) = 1
        /\ Done(r1) /\ responses[r1][1].status = 200
        /\ req[r2].buffer = FiveMiB + 1 /\ Done(r2)
        /\ responses[r2][1].status = 400

\* C5: when imagekit.upload raises, the request ends with the single response
\* 500 { success: false, error: "Failed to upload image", details: <the
\* error's message> }, and imagekit.upload is called at most once per request.
C5_StoreFailureTerminal ==
    \A r \in Requests :
        /\ Len(uploads[r]) <= 1
        /\ req[r].threw = "upload" =>
               /\ responses[r] = <<Failure500(r)>>
               /\ req[r].message \in ErrMsgs
               /\ Done(r)

C5_Witness ==
    \E r1, r2 \in Requests :
        /\ req[r1].threw = "upload" /\ req[r2].threw = "upload"
        /\ req[r1].message # req[r2].message
        /\ Len(uploads[r1]) = 1 /\ Len(responses[r1]) = 1

\* C6: every call of imagekit.upload is made for a non-empty caller identity,
\* with a payload of more than 0 and at most 5 MiB bytes, for a file whose
\* declared content type is in the allow-list.
C6_UploadRequestInvariant ==
    \A r \in Requests :
        \A i \in 1..Len(uploads[r]) :
            /\ req[r].userId \notin NoIdentity
            /\ uploads[r][i].file > 0
            /\ uploads[r][i].file <= FiveMiB
            /\ req[r].file.type \in AllowList

\* C7: sanitizing a suggested name (absent and empty ones included) yields a
\* string all of whose characters are in [a-zA-Z0-9._-], and sanitizing that
\* string again yields it unchanged.
C7_SanitizeIdempotentTotal ==
    /\ \A i \in 1..Len(sanOut) :
           /\ sanOut[i] # Null
           /\ \A k \in 1..Len(sanOut[i]) : sanOut[i][k] \in SafeSet
    /\ Len(sanOut) = 2 => sanOut[2] = sanOut[1]
    /\ (Len(sanOut) >= 1 /\ sanIn \in {Null, <<>>}) =>
           sanOut[1] = <<"u", "p", "l", "o", "a", "d">>

\* a name with a character outside the safe set, sanitized twice
C7_Witness ==
    /\ Len(sanOut) = 2
    /\ sanIn # Null
    /\ \E k \in 1..Len(sanIn) : sanIn[k] \notin SafeSet
    /\ \E k \in 1..Len(sanIn) : sanIn[k] \in SafeSet

\* C8: no two distinct requests pass imagekit.upload the same fileName key.
C8_KeysUnique ==
    \A r1, r2 \in Requests :
        (r1 # r2 /\ Len(uploads[r1]) > 0 /\ Len(uploads[r2]) > 0) =>
            uploads[r1][1].fileName # uploads[r2][1].fileName

\* C8 as amended: two distinct requests pass imagekit.upload the same key
\* exactly when they have the same caller, the same Date.now() reading and
\* the same sanitized name; a different caller, a different millisecond or a
\* different sanitized name gives a different key.
C8_KeysUniqueUpToClock ==
    \A r1, r2 \in Requests :
        (r1 # r2 /\ Len(uploads[r1]) > 0 /\ Len(uploads[r2]) > 0) =>
            (uploads[r1][1].fileName = uploads[r2][1].fileName
             <=> /\ req[r1].userId = req[r2].userId
                 /\ req[r1].timestamp = req[r2].timestamp
                 /\ req[r1].sanitizedFileName = req[r2].sanitizedFileName)

\* the same caller uploads under the same suggested name in two different
\* milliseconds
C8_Witness ==
    \E r1, r2 \in Requests :
        /\ r1 # r2 /\ Len(uploads[r1]) > 0 /\ Len(uploads[r2]) > 0
        /\ req[r1].userId = req[r2].userId
        /\ req[r1].fileName = req[r2].fileName
        /\ req[r1].timestamp # req[r2].timestamp

\* the first gate that fails for r, from what the client sent, what auth()
\* returned and whether the store raised; 0 when none fails
FirstFailingGate(r) ==
    IF req[r].userId \in NoIdentity THEN 1
    ELSE IF ~req[r].body.file.present THEN 2
    ELSE IF req[r].body.file.type \notin AllowList THEN 3
    ELSE IF req[r].body.file.size > FiveMiB THEN 4
    ELSE IF req[r].threw = "upload" THEN 5
    ELSE 0

GateResponse(r, gate) ==
    CASE gate = 1 -> [status |-> 401, body |-> [error |-> "Unauthorized"]]
      [] gate = 2 -> [status |-> 400, body |-> [error |-> "No file provided"]]
      [] gate = 3 -> [status |-> 400, body |-> [error |-> "Unsupported file type"]]
      [] gate = 4 -> [status |-> 400, body |-> [error |-> "File too large (max 5MB allowed)"]]
      [] gate = 5 -> Failure500(r)

\* C9: for an answered request in which auth(), formData(), arrayBuffer() and
\* imagekit.url() did not raise, the response is that of the first failing
\* gate in the order identity, presence, type, size, store upload; the gates
\* evaluated are exactly those up to and including it; and the response is
\* 200 with success: true exactly when no gate fails.
C9_LinearPipeline ==
    \A r \in Requests :
        (Done(r) /\ req[r].threw \in {"none", "upload"}) =>
            LET gate == FirstFailingGate(r)
                last == IF gate = 0 THEN 5 ELSE gate
            IN  /\ Len(responses[r]) = 1
                /\ gate # 0 => responses[r][1] = GateResponse(r, gate)
                /\ GatesEvaluated(r) = SubSeq(GateOrder, 1, last)
                /\ (responses[r][1].status = 200 /\ responses[r][1].body.success = TRUE)
                       <=> gate = 0

\* an oversize file of a disallowed type is refused for its type, while an
\* unauthenticated request without a file is refused for its identity
C9_Witness ==
    \E r1, r2 \in Requests :
        /\ Done(r1) /\ req[r1].threw = "none"
        /\ req[r1].body.file.type = "application/pdf"
        /\ req[r1].body.file.size > FiveMiB
        /\ responses[r1][1].body = [error |-> "Unsupported file type"]
        /\ Done(r2) /\ req[r2].threw = "none"
        /\ ~req[r2].body.file.present
        /\ responses[r2][1].status = 401

\* every response sent for r is the single response of a finished handler,
\* and an error raised at any step was answered with the 500 response
AnsweredOnce(r) ==
    /\ Len(responses[r]) <= 1
    /\ Done(r) <=> Len(responses[r]) = 1
    /\ req[r].threw # "none" => (Done(r) /\ responses[r] = <<Failure500(r)>>)
    /\ \A i \in 1..Len(responses[r]) : responses[r][i].status \in {200, 400, 401, 500}

\* C10: every request whose awaited calls each return or raise is eventually
\* answered, with exactly one response; an error raised at any step (identity
\* resolution, form-data read, payload read, store upload, thumbnail URL) is
\* answered 500 { success: false, error: "Failed to upload image", details }.
C10_AlwaysAnswered ==
    /\ [](\A r \in Requests : AnsweredOnce(r))
    /\ \A r \in Requests :
           (req[r].pc # "idle") ~> (Done(r) /\ Len(responses[r]) = 1)

\* one request whose form-data read raised and one whose thumbnail derivation
\* raised, both answered
C10_Witness ==
    \E r1, r2 \in Requests :
        /\ req[r1].threw = "formData" /\ responses[r1] = <<Failure500(r1)>>
        /\ req[r2].threw = "url" /\ responses[r2] = <<Failure500(r2)>>

====
